---- MODULE Spec2Model ----
(***************************************************************************)
(* A model of cargo-rudra (src/src/bin/cargo-rudra.rs): the orchestrator   *)
(* persona (`cargo rudra`, in_cargo_rudra) with its workspace scheduler    *)
(* (cargo_workspace) and child supervision, and the compiler persona       *)
(* (`cargo-rudra rustc ...`, inside_cargo_rustc).                          *)
(*                                                                         *)
(* Strings are sequences of atoms (short pieces of text), so that          *)
(* starts_with, ends_with, slicing and Path::is_relative are computed on   *)
(* the text and not looked up.                                             *)
(***************************************************************************)
EXTENDS Integers, Sequences, FiniteSets, TLC

\* ------------------------------------------------------------------------
\* Bounds of the model
\* ------------------------------------------------------------------------

\* Most dependency edges in a resolved graph.
MaxEdges == 3

\* Longest target list of a package.
MaxTargets == 2

\* Most arguments cargo passes after `cargo-rudra rustc`.
MaxArgs == 3

\* ------------------------------------------------------------------------
\* Strings
\* ------------------------------------------------------------------------

\* str::starts_with
StartsWith(s, p) == Len(s) >= Len(p) /\ SubSeq(s, 1, Len(p)) = p

\* str::ends_with
EndsWith(s, p) == Len(s) >= Len(p) /\ SubSeq(s, Len(s) - Len(p) + 1, Len(s)) = p

\* &arg[name.len()..]
StripPrefix(s, p) == SubSeq(s, Len(p) + 1, Len(s))

\* Path::is_relative (Unix): a path is absolute exactly when it has a root.
IsRelativePath(s) == ~StartsWith(s, <<"/">>)

DashDash == <<"--">>

RsSuffix == <<".rs">>

\* ------------------------------------------------------------------------
\* Target kinds
\* ------------------------------------------------------------------------

Library == 0

Bin == 1

Unknown == 2

TargetKind_is_lib_str(s) == s = <<"lib">> \/ s = <<"rlib">> \/ s = <<"staticlib">>

\* A conversion without the Unknown kind: what is no library is a binary.
TargetKind_from_no_unknown(kind) ==
    IF \E j \in 1..Len(kind) : TargetKind_is_lib_str(kind[j]) THEN Library ELSE Bin

\* impl From<&cargo_metadata::Target> for TargetKind; kind is the target's
\* list of kind strings.
TargetKind_from(kind) ==
    IF \E j \in 1..Len(kind) : TargetKind_is_lib_str(kind[j]) THEN Library
    ELSE IF Len(kind) > 0 /\ kind[1] = <<"bin">> THEN Bin
    ELSE Unknown

\* impl Display for TargetKind
TargetKind_fmt(k) ==
    CASE k = Library -> <<"lib">>
      [] k = Bin -> <<"bin">>
      [] OTHER -> <<"unknown">>

\* ------------------------------------------------------------------------
\* State
\* ------------------------------------------------------------------------

VARIABLES
    argv,               \* std::env::args(): a sequence of strings
    nodes,              \* metadata.resolve.nodes: the resolved package ids
    node_deps,          \* node.deps of each node: {[pkg, dep_kinds]}
    workspace_members,  \* metadata.workspace_members
    pkg_targets,        \* package.targets of each package, in metadata order
    pc,                 \* where the process is; a terminal value once exited
    exit_code,          \* <<>> while running, <<c>> once the process exited
    dependencies,       \* cargo_workspace: the working map of the sort
    res,                \* cargo_workspace: the order built so far
    step,               \* cargo_workspace: iterations of `for _ in 0..n` done
    panic_report,       \* the map a "Cyclic dependencies" panic prints
    packages,           \* in_cargo_rudra: cargo_package()'s result
    pkg_i,              \* in_cargo_rudra: index of the package being visited
    targets,            \* in_cargo_rudra: its sorted target list
    tgt_i,              \* in_cargo_rudra: index of the target being visited
    procs,              \* every child spawned so far, in spawn order
    cargo_pkg_name,     \* env CARGO_PKG_NAME: <<>> unset, <<s>> set to s
    rudra_also_analyze, \* env RUDRA_ALSO_ANALYZE, likewise
    rudra_args,         \* env RUDRA_ARGS as inside_cargo_rustc read it
    is_direct_target,   \* inside_cargo_rustc: the local of that name
    is_additional_target,
    gate_runs,          \* inside_cargo_rustc: the programs run, in order
    rudra_report_path,  \* env RUDRA_REPORT_PATH: <<>> unset, <<s>> set to s
    use_xargo,          \* env RUDRA_USE_XARGO_INSTEAD_OF_CARGO is set
    debug_assertions,   \* cfg!(debug_assertions) of this build
    orch_argv,          \* <<a>>: this process runs under a `cargo rudra`
                        \* whose arguments were a; <<>>: under none
    report_logger,      \* report.rs REPORT_LOGGER: <<>> unset, <<l>> set to l
    handle,             \* the FlushHandle: its state and the thread holding it
    mutex,              \* the logger's reports mutex: <<>> free, <<t>> held by t
    reports,            \* the logger's reports vector
    tpc,                \* of each thread of the analyzer: position and locals
    next_report,        \* the next report to be made
    written,            \* what flush wrote: <<>> nothing yet, <<seq>>
    inits,              \* every call of init_report_logger so far, in order
    returned,           \* the reports whose rudra_report call has returned
    flush_seen          \* `returned` as it was when flush took the mutex

orch_vars == <<nodes, node_deps, workspace_members, pkg_targets, dependencies,
               res, step, panic_report, packages, pkg_i, targets, tgt_i, procs>>

gate_vars == <<cargo_pkg_name, rudra_also_analyze, rudra_args, is_direct_target,
               is_additional_target, gate_runs>>

env_vars == <<rudra_report_path, use_xargo, debug_assertions, orch_argv>>

report_vars == <<report_logger, handle, mutex, reports, tpc, next_report,
                 written, inits, returned, flush_seen>>

cargo_vars == <<argv, pc, exit_code, orch_vars, gate_vars, env_vars>>

vars == <<cargo_vars, report_vars>>

\* ------------------------------------------------------------------------
\* Inputs
\* ------------------------------------------------------------------------

PkgIds == {"A", "B", "C"}

DepKinds == {"normal", "dev"}

ExePath == <<"/", "bin/cargo-rudra">>

\* Exit statuses of a child: <<c>> is exit code c, <<>> is death by a signal.
ExitStatuses == {<<0>>, <<1>>, <<>>}

\* ExitStatus::success
Success(status) == status = <<0>>

\* Exit code of a process that panicked.
PanicExitCode == 101

Target(name, kind) == [name |-> name, kind |-> kind]

TargetPool ==
    { Target(<<"core">>, << <<"lib">> >>),
      Target(<<"tool">>, << <<"bin">> >>),
      Target(<<"build-script-build">>, << <<"custom-build">> >>) }

\* Every ordering of every subset of the pool with at most n targets.
RECURSIVE TargetListsUpTo(_)
TargetListsUpTo(n) ==
    IF n = 0 THEN {<<>>}
    ELSE LET shorter == TargetListsUpTo(n - 1)
         IN shorter \cup
            { Append(l, t) : l \in {x \in shorter : Len(x) = n - 1},
                             t \in TargetPool }

Range(f) == {f[x] : x \in DOMAIN f}

NoRepeat(l) == Cardinality(Range(l)) = Len(l)

TargetLists == {l \in TargetListsUpTo(MaxTargets) : NoRepeat(l)}

\* The targets every package has when the dependency graph is what varies.
FixedTargets ==
    << Target(<<"tool">>, << <<"bin">> >>),
       Target(<<"build-script-build">>, << <<"custom-build">> >>),
       Target(<<"core">>, << <<"cdylib">>, <<"rlib">> >>) >>

\* node.deps built from a set of labelled edges <<p, d, kind>>.
DepsOf(edges, ns) ==
    [p \in ns |-> {[pkg |-> e[2], dep_kinds |-> {e[3]}] : e \in {x \in edges : x[1] = p}}]

\* Labelled edge sets over ns: at most max edges, one label per pair.
EdgeSets(ns, max) ==
    {E \in SUBSET (ns \X ns \X DepKinds) :
        /\ Cardinality(E) <= max
        /\ \A e1, e2 \in E : (e1[1] = e2[1] /\ e1[2] = e2[2]) => e1 = e2}

\* ------------------------------------------------------------------------
\* cargo_workspace
\* ------------------------------------------------------------------------

\* The filter of a node's deps: those with some dep kind Normal.
NormalDeps(ds) == {d.pkg : d \in {x \in ds : \E k \in x.dep_kinds : k = "normal"}}

\* A map built without the edges.
InitialDependencies_empty == [p \in nodes |-> {}]

\* The map built by the first loop of cargo_workspace.
InitialDependencies == [p \in nodes |-> NormalDeps(node_deps[p])]

\* A find that takes any package, free of dependencies or not.
Candidates_any(m) == DOMAIN m

\* A find that falls back to any package when none is free of dependencies.
Candidates_fallback(m) ==
    IF {p \in DOMAIN m : m[p] = {}} = {} THEN DOMAIN m
    ELSE {p \in DOMAIN m : m[p] = {}}

\* The packages `find(|(_, deps)| deps.is_empty())` may return: a HashMap
\* iterates in an arbitrary order, so any of them.
Candidates(m) == {p \in DOMAIN m : m[p] = {}}

\* dependencies.remove(&package_id), then deps.remove(&package_id) in each entry.
RemovePackage(m, p) == [q \in (DOMAIN m) \ {p} |-> m[q] \ {p}]

\* The order returned as it is, packages outside the workspace included.
FilterWorkspace_all(r, members) == r

\* res.into_iter().filter(|pkg| workspace.contains(pkg))
FilterWorkspace(r, members) == SelectSeq(r, LAMBDA p : p \in members)

\* ------------------------------------------------------------------------
\* Argument helpers (they read std::env::args(), program name included)
\* ------------------------------------------------------------------------

\* args.take_while(|val| val != "--")
RECURSIVE TakeUntilDashDash(_)
TakeUntilDashDash(a) ==
    IF a = <<>> \/ Head(a) = DashDash THEN <<>>
    ELSE <<Head(a)>> \o TakeUntilDashDash(Tail(a))

\* The loop of get_arg_flag_value over the arguments a, from index j on.
\* The result is an Option: <<>> is None, <<v>> is Some(v).
RECURSIVE GetArgFlagValueFrom(_, _, _)
GetArgFlagValueFrom(a, j, name) ==
    IF j > Len(a) THEN <<>>
    ELSE IF ~StartsWith(a[j], name) THEN GetArgFlagValueFrom(a, j + 1, name)
    ELSE LET suffix == StripPrefix(a[j], name)
         IN IF suffix = <<>>
              THEN (IF j + 1 <= Len(a) THEN <<a[j + 1]>> ELSE <<>>)
            ELSE IF Head(suffix) = "="
              THEN <<Tail(suffix)>>
            ELSE GetArgFlagValueFrom(a, j + 1, name)

get_arg_flag_value(name, stop) ==
    GetArgFlagValueFrom(IF stop THEN TakeUntilDashDash(argv) ELSE argv, 1, name)

\* The loop of any_arg_flag over the arguments a, from index j on; check is
\* given as the set of values it accepts.
RECURSIVE AnyArgFlagFrom(_, _, _, _)
AnyArgFlagFrom(a, j, name, accepted) ==
    IF j > Len(a) THEN FALSE
    ELSE IF ~StartsWith(a[j], name) THEN AnyArgFlagFrom(a, j + 1, name, accepted)
    ELSE LET suffix == StripPrefix(a[j], name)
         IN IF suffix = <<>>
              THEN (IF j + 1 > Len(a) THEN FALSE
                    ELSE IF a[j + 1] \in accepted THEN TRUE
                    ELSE AnyArgFlagFrom(a, j + 2, name, accepted))
            ELSE IF Head(suffix) = "="
              THEN (IF Tail(suffix) \in accepted THEN TRUE
                    ELSE AnyArgFlagFrom(a, j + 1, name, accepted))
            ELSE FALSE

any_arg_flag(name, accepted) ==
    AnyArgFlagFrom(TakeUntilDashDash(argv), 1, name, accepted)

\* The strings TargetKind::is_lib_str accepts.
LibStrs == {<<"lib">>, <<"rlib">>, <<"staticlib">>}

\* args.find(|arg| arg.ends_with(".rs")), as an Option.
RECURSIVE FindRsSuffix(_)
FindRsSuffix(a) ==
    IF a = <<>> THEN <<>>
    ELSE IF EndsWith(Head(a), RsSuffix) THEN <<Head(a)>>
    ELSE FindRsSuffix(Tail(a))

get_first_arg_with_rs_suffix == FindRsSuffix(TakeUntilDashDash(argv))

\* args().skip(n)
Skip(a, n) == SubSeq(a, n + 1, Len(a))

\* ------------------------------------------------------------------------
\* serde_json on Vec<String>, and the split of the arguments at `--`
\* ------------------------------------------------------------------------

\* Characters of a string that JSON writes escaped: the quote, the
\* backslash, and the control characters (here U+000A and U+0001).
Quote == "\""

Backslash == "\\"

ControlChars == {"LF", "SOH"}

\* The escaping with the backslash written as it is.
EscapeChar_backslash_raw(c) ==
    CASE c = Quote -> <<Backslash, Quote>>
      [] c = "LF" -> <<Backslash, "n">>
      [] c = "SOH" -> <<Backslash, "u", "0001">>
      [] OTHER -> <<c>>

\* serde_json's format_escaped_str_contents, one character.
EscapeChar(c) ==
    CASE c = Quote -> <<Backslash, Quote>>
      [] c = Backslash -> <<Backslash, Backslash>>
      [] c = "LF" -> <<Backslash, "n">>
      [] c = "SOH" -> <<Backslash, "u", "0001">>
      [] OTHER -> <<c>>

RECURSIVE EscapeContents(_)
EscapeContents(str) ==
    IF str = <<>> THEN <<>> ELSE EscapeChar(Head(str)) \o EscapeContents(Tail(str))

RECURSIVE JoinEscaped(_)
JoinEscaped(v) ==
    IF v = <<>> THEN <<>>
    ELSE <<Quote>> \o EscapeContents(Head(v)) \o <<Quote>>
         \o (IF Tail(v) = <<>> THEN <<>> ELSE <<",">> \o JoinEscaped(Tail(v)))

\* serde_json::to_string(&Vec<String>): the text, character by character.
to_string(v) == <<"[">> \o JoinEscaped(v) \o <<"]">>

\* The characters of a JSON string from position j, after the opening
\* quote: [ok, val, next], next the position after the closing quote.
RECURSIVE ParseStr(_, _, _)
ParseStr(text, j, acc) ==
    LET bad == [ok |-> FALSE, val |-> <<>>, next |-> j]
    IN IF j > Len(text) THEN bad
       ELSE IF text[j] = Quote THEN [ok |-> TRUE, val |-> acc, next |-> j + 1]
       ELSE IF text[j] \in ControlChars THEN bad
       ELSE IF text[j] # Backslash THEN ParseStr(text, j + 1, Append(acc, text[j]))
       ELSE IF j + 1 > Len(text) THEN bad
       ELSE IF text[j + 1] \in {Quote, Backslash}
         THEN ParseStr(text, j + 2, Append(acc, text[j + 1]))
       ELSE IF text[j + 1] = "n" THEN ParseStr(text, j + 2, Append(acc, "LF"))
       ELSE IF text[j + 1] = "u" /\ j + 2 <= Len(text) /\ text[j + 2] = "0001"
         THEN ParseStr(text, j + 3, Append(acc, "SOH"))
       ELSE bad

\* The elements of a JSON array of strings from position j: [ok, val].
RECURSIVE ParseElements(_, _, _)
ParseElements(text, j, acc) ==
    LET bad == [ok |-> FALSE, val |-> <<>>]
    IN IF j > Len(text) \/ text[j] # Quote THEN bad
       ELSE LET e == ParseStr(text, j + 1, <<>>)
            IN IF ~e.ok \/ e.next > Len(text) THEN bad
               ELSE IF text[e.next] = "]"
                 THEN IF e.next = Len(text)
                        THEN [ok |-> TRUE, val |-> Append(acc, e.val)]
                        ELSE bad
               ELSE IF text[e.next] = ","
                 THEN ParseElements(text, e.next + 1, Append(acc, e.val))
               ELSE bad

\* A decoder that gives what it parsed of a text that is no array of
\* strings, instead of an error.
from_str_lenient(text) ==
    IF Len(text) >= 3 /\ text[1] = "[" /\ text[2] # "]"
      THEN [ok |-> TRUE, val |-> ParseElements(text, 2, <<>>).val]
      ELSE [ok |-> TRUE, val |-> <<>>]

\* serde_json::from_str::<Vec<String>> on a text: [ok, val].
from_str(text) ==
    IF Len(text) < 2 \/ text[1] # "[" THEN [ok |-> FALSE, val |-> <<>>]
    ELSE IF text[2] = "]" THEN [ok |-> Len(text) = 2, val |-> <<>>]
    ELSE ParseElements(text, 2, <<>>)

\* The arguments after the first `--` of a list.
RECURSIVE AfterDashDash(_)
AfterDashDash(a) ==
    IF a = <<>> THEN <<>>
    ELSE IF Head(a) = DashDash THEN Tail(a)
    ELSE AfterDashDash(Tail(a))

\* `args.collect()` once the forwarding loop has consumed the first `--`:
\* what `cargo rudra` with the arguments a serializes into RUDRA_ARGS.
RemainingArgs(a) == AfterDashDash(Skip(a, 2))

\* ------------------------------------------------------------------------
\* in_cargo_rudra
\* ------------------------------------------------------------------------

KindOf(t) == TargetKind_from(t.kind)

\* The metadata order kept.
SortByKind_unsorted(ts) == ts

\* targets.sort_by_key(|target| TargetKind::from(target) as u8): a stable sort
\* on a key with the three values 0, 1, 2.
SortByKind(ts) ==
    SelectSeq(ts, LAMBDA t : KindOf(t) = Library)
    \o SelectSeq(ts, LAMBDA t : KindOf(t) = Bin)
    \o SelectSeq(ts, LAMBDA t : KindOf(t) = Unknown)

\* package.name and package.version of the package with id p.
PackageName(p) == <<p>>

PackageVersion(p) == <<"0.1.0">>

\* version_info().host
Host == <<"x86_64-unknown-linux-gnu">>

\* has_arg_flag: some argument before any `--` is the flag.
has_arg_flag(name) ==
    \E j \in 1..Len(TakeUntilDashDash(argv)) : TakeUntilDashDash(argv)[j] = name

\* Command::new("cargo") with `check -p name@version`, or the
\* Command::new("xargo-check") that replaces it under the override.
Program == IF use_xargo THEN "xargo-check" ELSE "cargo"

PackageSelection(p) ==
    IF use_xargo THEN <<>>
    ELSE << <<"check">>, <<"-p">>, PackageName(p) \o <<"@">> \o PackageVersion(p) >>

\* `match kind { Bin => --bin name, Library => --lib, .. }`
TargetSelection(t) ==
    IF KindOf(t) = Bin THEN << <<"--bin">>, t.name >> ELSE << <<"--lib">> >>

\* `if !cfg!(debug_assertions) && !verbose { cmd.arg("-q") }`
Quiet ==
    IF ~debug_assertions /\ ~has_arg_flag(<<"-v">>) THEN << <<"-q">> >> ELSE <<>>

\* Every caller argument forwarded, the `--` and what follows it included.
ForwardedArgs_all == Skip(argv, 2)

\* "Forward user-defined `cargo` args until first `--`."
ForwardedArgs == TakeUntilDashDash(Skip(argv, 2))

\* `if get_arg_flag_value("--target", false).is_none()`: the host default.
DefaultTarget ==
    IF get_arg_flag_value(<<"--target">>, FALSE) = <<>>
      THEN << <<"--target">>, Host >>
      ELSE <<>>

\* The report path with kind and name left out.
ReportPath_no_suffix(t) == rudra_report_path

\* RUDRA_REPORT_PATH of the child: format!("{}-{}-{}", report, kind, name)
\* when the variable is set, else it stays unset.
ReportPath(t) ==
    IF rudra_report_path = <<>> THEN <<>>
    ELSE << rudra_report_path[1] \o <<"-">> \o TargetKind_fmt(KindOf(t))
            \o <<"-">> \o t.name >>

\* The command in_cargo_rudra builds for target t of package p: program,
\* arguments, and the environment variables it sets.
Command(p, t) ==
    [prog |-> Program,
     args |-> PackageSelection(p) \o TargetSelection(t) \o Quiet
              \o ForwardedArgs \o DefaultTarget,
     RUDRA_REPORT_PATH |-> ReportPath(t),
     RUDRA_ARGS |-> to_string(RemainingArgs(argv)),
     RUSTC_WRAPPER |-> ExePath,
     RUDRA_VERBOSE |-> IF has_arg_flag(<<"-v">>) THEN << <<>> >> ELSE <<>>]

\* The child the orchestrator spawned last.
Child == procs[Len(procs)]

SetChild(st, status) ==
    [procs EXCEPT ![Len(procs)] = [@ EXCEPT !.st = st, !.status = status]]

\* A failure status ignored.
OnExitStatus_ignored(status) == "loop"

\* Where wait_timeout's Some(exit_status) arm leads.
OnExitStatus(status) == IF Success(status) THEN "loop" ELSE "Failed"

\* show_error right after child.kill(), without child.wait().
AfterKill_no_wait == "TimedOut"

\* Where wait_timeout's None arm leads, after child.kill().
AfterKill == "reap"

\* The loop going on without waiting for the child.
AfterSpawn_no_wait == "loop"

\* Where the orchestrator is once cmd.spawn() returned.
AfterSpawn == "wait"

Terminal == {"Done", "Failed", "TimedOut", "Panicked", "Help", "Exited"}

\* ------------------------------------------------------------------------
\* Actions of the orchestrator persona
\* ------------------------------------------------------------------------

\* The help flags looked for before any `--` only.
HasHelpFlag_before_dashdash == has_arg_flag(<<"--help">>) \/ has_arg_flag(<<"-h">>)

\* `std::env::args().any(|a| a == "--help" || a == "-h")`
HasHelpFlag == \E j \in 1..Len(argv) : argv[j] = <<"--help">> \/ argv[j] = <<"-h">>

FirstArgEndsWith(name) == Len(argv) >= 2 /\ EndsWith(argv[2], name)

\* main, up to its dispatch on the first argument.
Main ==
    /\ pc = "main"
    /\ IF HasHelpFlag
         THEN pc' = "Help" /\ exit_code' = <<0>>
       ELSE IF FirstArgEndsWith(<<"rudra">>)
         THEN pc' = "sysroot" /\ exit_code' = exit_code
       ELSE IF FirstArgEndsWith(<<"rustc">>)
         THEN pc' = "gate" /\ exit_code' = exit_code
       ELSE pc' = "Failed" /\ exit_code' = <<1>>
    /\ UNCHANGED <<gate_vars, env_vars, report_vars>>
    /\ UNCHANGED <<argv, orch_vars>>

\* test_sysroot_consistency: the two sysroots are equal, or show_error.
TestSysrootConsistency ==
    /\ pc = "sysroot"
    /\ \E consistent \in BOOLEAN :
         IF consistent
           THEN pc' = "meta" /\ exit_code' = exit_code
           ELSE pc' = "Failed" /\ exit_code' = <<1>>
    /\ UNCHANGED <<gate_vars, env_vars, report_vars>>
    /\ UNCHANGED <<argv, orch_vars>>

\* get_meta and the head of cargo_workspace: the metadata is read and the
\* dependency map is built, or `cargo metadata` fails and show_error exits.
GetMeta ==
    /\ pc = "meta"
    /\ \E ok \in BOOLEAN :
         IF ok
           THEN /\ pc' = "sched"
                /\ dependencies' = InitialDependencies
                /\ res' = <<>>
                /\ step' = 0
                /\ exit_code' = exit_code
           ELSE /\ pc' = "Failed"
                /\ exit_code' = <<1>>
                /\ UNCHANGED <<dependencies, res, step>>
    /\ UNCHANGED <<gate_vars, env_vars, report_vars>>
    /\ UNCHANGED <<argv, nodes, node_deps, workspace_members, pkg_targets,
                   panic_report, packages, pkg_i, targets, tgt_i, procs>>

\* One iteration of `for _ in 0..n` that finds a package without dependencies.
SelectPackage ==
    /\ pc = "sched"
    /\ step < Cardinality(nodes)
    /\ \E p \in Candidates(dependencies) :
         /\ res' = Append(res, p)
         /\ dependencies' = RemovePackage(dependencies, p)
    /\ step' = step + 1
    /\ UNCHANGED <<gate_vars, env_vars, report_vars>>
    /\ UNCHANGED <<argv, pc, exit_code, nodes, node_deps, workspace_members,
                   pkg_targets, panic_report, packages, pkg_i, targets, tgt_i, procs>>

\* One iteration that finds none: panic!("Cyclic dependencies in workspace. ..").
CyclePanic ==
    /\ pc = "sched"
    /\ step < Cardinality(nodes)
    /\ Candidates(dependencies) = {}
    /\ pc' = "Panicked"
    /\ exit_code' = <<PanicExitCode>>
    /\ panic_report' = dependencies
    /\ UNCHANGED <<gate_vars, env_vars, report_vars>>
    /\ UNCHANGED <<argv, nodes, node_deps, workspace_members, pkg_targets,
                   dependencies, res, step, packages, pkg_i, targets, tgt_i, procs>>

\* The tail of cargo_workspace: the order is filtered to the workspace members
\* and returned; res and the map are consumed.
ReturnPackages ==
    /\ pc = "sched"
    /\ step = Cardinality(nodes)
    /\ packages' = FilterWorkspace(res, workspace_members)
    /\ res' = <<>>
    /\ pc' = "loop"
    /\ pkg_i' = 0
    /\ targets' = <<>>
    /\ tgt_i' = 1
    /\ UNCHANGED <<gate_vars, env_vars, report_vars>>
    /\ UNCHANGED <<argv, exit_code, nodes, node_deps, workspace_members,
                   pkg_targets, dependencies, step, panic_report, procs>>

\* `for package in &packages`: the next package, its targets cloned and sorted.
NextPackage ==
    /\ pc = "loop"
    /\ tgt_i > Len(targets)
    /\ pkg_i < Len(packages)
    /\ pkg_i' = pkg_i + 1
    /\ targets' = SortByKind(pkg_targets[packages[pkg_i + 1]])
    /\ tgt_i' = 1
    /\ UNCHANGED <<gate_vars, env_vars, report_vars>>
    /\ UNCHANGED <<argv, pc, exit_code, nodes, node_deps, workspace_members,
                   pkg_targets, dependencies, res, step, panic_report, packages, procs>>

\* TargetKind::Unknown: warn!(..) and continue.
SkipUnknown ==
    /\ pc = "loop"
    /\ tgt_i <= Len(targets)
    /\ KindOf(targets[tgt_i]) = Unknown
    /\ tgt_i' = tgt_i + 1
    /\ UNCHANGED <<gate_vars, env_vars, report_vars>>
    /\ UNCHANGED <<argv, pc, exit_code, nodes, node_deps, workspace_members,
                   pkg_targets, dependencies, res, step, panic_report, packages,
                   pkg_i, targets, procs>>

\* A Library or Bin target: the command is built and cmd.spawn() starts it.
Spawn ==
    /\ pc = "loop"
    /\ tgt_i <= Len(targets)
    /\ KindOf(targets[tgt_i]) # Unknown
    /\ procs' = Append(procs, [pkg |-> packages[pkg_i],
                               name |-> targets[tgt_i].name,
                               kind |-> KindOf(targets[tgt_i]),
                               st |-> "running",
                               status |-> <<>>,
                               killed |-> FALSE,
                               cmd |-> Command(packages[pkg_i], targets[tgt_i])])
    /\ pc' = AfterSpawn
    /\ UNCHANGED <<gate_vars, env_vars, report_vars>>
    /\ UNCHANGED <<argv, exit_code, nodes, node_deps, workspace_members,
                   pkg_targets, dependencies, res, step, panic_report, packages,
                   pkg_i, targets, tgt_i>>

\* The child exits by itself, with any status; it is a zombie until waited for.
ChildExit ==
    /\ pc \in {"loop", "wait", "kill"}
    /\ Len(procs) > 0
    /\ Child.st = "running"
    /\ \E status \in ExitStatuses : procs' = SetChild("zombie", status)
    /\ UNCHANGED <<gate_vars, env_vars, report_vars>>
    /\ UNCHANGED <<argv, pc, exit_code, nodes, node_deps, workspace_members,
                   pkg_targets, dependencies, res, step, panic_report, packages,
                   pkg_i, targets, tgt_i>>

\* wait_timeout returns Some(exit_status): the child exited within the hour
\* and is reaped; a failure status is show_error.
WaitCompleted ==
    /\ pc = "wait"
    /\ Child.st = "zombie"
    /\ procs' = SetChild("reaped", Child.status)
    /\ pc' = OnExitStatus(Child.status)
    /\ IF OnExitStatus(Child.status) = "Failed"
         THEN exit_code' = <<1>> /\ tgt_i' = tgt_i
         ELSE exit_code' = exit_code /\ tgt_i' = tgt_i + 1
    /\ UNCHANGED <<gate_vars, env_vars, report_vars>>
    /\ UNCHANGED <<argv, nodes, node_deps, workspace_members, pkg_targets,
                   dependencies, res, step, panic_report, packages, pkg_i, targets>>

\* wait_timeout returns None: the hour passed and the child has not exited.
WaitTimedOut ==
    /\ pc = "wait"
    /\ Child.st = "running"
    /\ pc' = "kill"
    /\ UNCHANGED <<gate_vars, env_vars, report_vars>>
    /\ UNCHANGED <<argv, exit_code, orch_vars>>

\* child.kill(): a running child dies by the signal; one that exited meanwhile
\* is left as it is.
Kill ==
    /\ pc = "kill"
    /\ procs' = [(IF Child.st = "running" THEN SetChild("zombie", <<>>) ELSE procs)
                    EXCEPT ![Len(procs)].killed = TRUE]
    /\ pc' = AfterKill
    /\ UNCHANGED <<gate_vars, env_vars, report_vars>>
    /\ UNCHANGED <<argv, exit_code, nodes, node_deps, workspace_members,
                   pkg_targets, dependencies, res, step, panic_report, packages,
                   pkg_i, targets, tgt_i>>

\* child.wait() reaps the killed child, then show_error("Killed due to timeout").
Reap ==
    /\ pc = "reap"
    /\ Child.st = "zombie"
    /\ procs' = SetChild("reaped", Child.status)
    /\ pc' = "TimedOut"
    /\ exit_code' = <<1>>
    /\ UNCHANGED <<gate_vars, env_vars, report_vars>>
    /\ UNCHANGED <<argv, nodes, node_deps, workspace_members, pkg_targets,
                   dependencies, res, step, panic_report, packages, pkg_i,
                   targets, tgt_i>>

\* The loops are over: in_cargo_rudra returns and main returns.
Finish ==
    /\ pc = "loop"
    /\ tgt_i > Len(targets)
    /\ pkg_i = Len(packages)
    /\ pc' = "Done"
    /\ exit_code' = <<0>>
    /\ UNCHANGED <<gate_vars, env_vars, report_vars>>
    /\ UNCHANGED <<argv, orch_vars>>

OrchNext ==
    \/ Main
    \/ TestSysrootConsistency
    \/ GetMeta
    \/ SelectPackage
    \/ CyclePanic
    \/ ReturnPackages
    \/ NextPackage
    \/ SkipUnknown
    \/ Spawn
    \/ ChildExit
    \/ WaitCompleted
    \/ WaitTimedOut
    \/ Kill
    \/ Reap
    \/ Finish

\* ------------------------------------------------------------------------
\* inside_cargo_rustc
\* ------------------------------------------------------------------------

contains_target_flag == get_arg_flag_value(<<"--target">>, FALSE) # <<>>

\* A check of the entry path's presence only.
is_target_crate_any_path == get_first_arg_with_rs_suffix # <<>>

is_target_crate ==
    LET entry_path_arg == get_first_arg_with_rs_suffix
    IN IF entry_path_arg = <<>> THEN FALSE
       ELSE IsRelativePath(entry_path_arg[1])

is_crate_type_lib == any_arg_flag(<<"--crate-type">>, LibStrs)

\* str::to_lowercase on the letters the package names here use.
LowerAtom(a) ==
    CASE a = "BAZ" -> "baz"
      [] a = "Baz" -> "baz"
      [] a = "Foo" -> "foo"
      [] OTHER -> a

to_lowercase(str) == [j \in 1..Len(str) |-> LowerAtom(str[j])]

\* str::split(','): the pieces between the commas.
RECURSIVE SplitFrom(_, _)
SplitFrom(str, piece) ==
    IF str = <<>> THEN <<piece>>
    ELSE IF Head(str) = "," THEN <<piece>> \o SplitFrom(Tail(str), <<>>)
    ELSE SplitFrom(Tail(str), Append(piece, Head(str)))

split_comma(str) == SplitFrom(str, <<>>)

\* The allow-list test with the entries and the name compared as written.
AlsoAnalyze_case_sensitive ==
    /\ cargo_pkg_name # <<>>
    /\ rudra_also_analyze # <<>>
    /\ \E x \in Range(split_comma(rudra_also_analyze[1])) : x = cargo_pkg_name[1]

\* The allow-list test: both variables are set and some entry equals the
\* package name, both lower-cased.
AlsoAnalyze ==
    /\ cargo_pkg_name # <<>>
    /\ rudra_also_analyze # <<>>
    /\ \E x \in Range(split_comma(rudra_also_analyze[1])) :
         to_lowercase(x) = to_lowercase(cargo_pkg_name[1])

\* The values RUDRA_ARGS may hold when the gate reads it. Under a `cargo
\* rudra` it is the text that process serialized; otherwise it is unset, or
\* set to a text that is an array of strings, is cut short, or is a string.
RudraArgsValues ==
    IF orch_argv # <<>> THEN { <<to_string(RemainingArgs(orch_argv[1]))>> }
    ELSE { <<>>,
           << <<"[", "]">> >>,
           << <<"[", Quote, "-Z", "rudra-report", Quote, "]">> >>,
           << <<"[", Quote, "-v", Quote>> >>,
           << <<Quote, "-v", Quote>> >> }

\* Every run of the analyzer.
ShouldAnalyze_always(direct, additional) == TRUE

\* `if is_direct_target || is_additional_target`
ShouldAnalyze(direct, additional) == direct \/ additional

\* The compiler run for every unit.
ShouldCompile_always(direct, lib) == TRUE

\* `if !is_direct_target || is_crate_type_lib()`
ShouldCompile(direct, lib) == ~direct \/ lib

\* run_command's std::process::exit(exit.code().unwrap_or(42)).
FallbackExitCode == 42

\* The exit statuses of a program the gate runs: exit codes, or none (a signal).
GateExitStatuses == ExitStatuses \cup {<<2>>}

\* An exit with code 1 whatever the program's status was.
ExitCodeOf_always_one(status) == <<1>>

ExitCodeOf(status) == IF status = <<>> THEN <<FallbackExitCode>> ELSE status

\* One run of a program by run_command: cmd.status() could not start it
\* (started FALSE), or it ran to the exit status.
Run(prog, args, started, status) ==
    [prog |-> prog, args |-> args, started |-> started, status |-> status]

\* run_command returning to its caller whatever the program's status was.
AfterRunCommand_ignore_failure(started, status, next) == next

\* Where the gate is after run_command(cmd): a panic when the program could
\* not be started, an exit with its code when it failed, else `next`.
AfterRunCommand(started, status, next) ==
    IF ~started THEN "Panicked"
    ELSE IF ~Success(status) THEN "Exited"
    ELSE next

ExitCodeAfterRun(started, status, next) ==
    IF ~started THEN <<PanicExitCode>>
    ELSE IF ~Success(status) THEN ExitCodeOf(status)
    ELSE IF next = "Exited" THEN <<0>>
    ELSE <<>>

\* RUDRA_REPORT_PATH of the analyzer: format!("{}-{}", report, package name
\* or "unknown") when the variable is set, else it stays unset.
GateReportPath ==
    IF rudra_report_path = <<>> THEN <<>>
    ELSE << rudra_report_path[1] \o <<"-">>
            \o (IF cargo_pkg_name = <<>> THEN <<"unknown">> ELSE cargo_pkg_name[1]) >>

\* The head of inside_cargo_rustc: the unit is classified.
Classify ==
    /\ pc = "gate"
    /\ is_direct_target' = (contains_target_flag /\ is_target_crate)
    /\ is_additional_target' = AlsoAnalyze
    /\ pc' = "classified"
    /\ UNCHANGED <<argv, exit_code, orch_vars, env_vars, report_vars, cargo_pkg_name, rudra_also_analyze,
                   rudra_args, gate_runs>>

\* `if is_direct_target || is_additional_target { .. }`: RUDRA_ARGS is read
\* and decoded (a panic when it is unset or no array of strings), and the
\* analyzer is run on the unit's arguments and the decoded ones.
Analyze ==
    /\ pc = "classified"
    /\ IF ShouldAnalyze(is_direct_target, is_additional_target)
         THEN \E magic \in RudraArgsValues :
                /\ rudra_args' = magic
                /\ IF magic = <<>> \/ ~from_str(magic[1]).ok
                     THEN /\ pc' = "Panicked"
                          /\ exit_code' = <<PanicExitCode>>
                          /\ gate_runs' = gate_runs
                     ELSE \E started \in BOOLEAN, status \in GateExitStatuses :
                            /\ started \/ status = <<>>
                            /\ gate_runs' = Append(gate_runs,
                                 Run("rudra", Skip(argv, 2) \o from_str(magic[1]).val,
                                     started, status)
                                 @@ [RUDRA_REPORT_PATH |-> GateReportPath])
                            /\ pc' = AfterRunCommand(started, status, "analyzed")
                            /\ exit_code' = ExitCodeAfterRun(started, status, "analyzed")
         ELSE /\ pc' = "analyzed"
              /\ UNCHANGED <<rudra_args, gate_runs, exit_code>>
    /\ UNCHANGED <<argv, orch_vars, env_vars, report_vars, cargo_pkg_name, rudra_also_analyze,
                   is_direct_target, is_additional_target>>

\* `if !is_direct_target || is_crate_type_lib() { .. }`: sccache when
\* which::which finds it, else rustc; then inside_cargo_rustc and main return.
Compile ==
    /\ pc = "analyzed"
    /\ IF ShouldCompile(is_direct_target, is_crate_type_lib)
         THEN \E sccache \in BOOLEAN, started \in BOOLEAN, status \in GateExitStatuses :
                /\ started \/ status = <<>>
                /\ gate_runs' = Append(gate_runs,
                     IF sccache
                       THEN Run("sccache", Skip(argv, 1), started, status)
                       ELSE Run("rustc", Skip(argv, 2), started, status))
                /\ pc' = AfterRunCommand(started, status, "Exited")
                /\ exit_code' = ExitCodeAfterRun(started, status, "Exited")
         ELSE /\ pc' = "Exited"
              /\ exit_code' = <<0>>
              /\ gate_runs' = gate_runs
    /\ UNCHANGED <<argv, orch_vars, env_vars, report_vars, cargo_pkg_name, rudra_also_analyze, rudra_args,
                   is_direct_target, is_additional_target>>

GateNext ==
    \/ Main
    \/ Classify
    \/ Analyze
    \/ Compile

\* ------------------------------------------------------------------------
\* report.rs: the diagnostic sink of the analyzer process
\* ------------------------------------------------------------------------

MaxReports == 3
MaxInits == 2

Threads == {"main", "w1", "w2"}
LoggerKinds == {"stderr", "file"}

ThreadIdle == [pc |-> "idle", r |-> 0, n |-> 0, unwinding |-> FALSE]

\* REPORT_LOGGER is an empty OnceCell, no thread has started.
ReportIdle ==
    /\ report_logger = <<>>
    /\ handle = [st |-> "none", owner |-> "main"]
    /\ mutex = <<>>
    /\ reports = <<>>
    /\ tpc = [t \in Threads |-> ThreadIdle]
    /\ next_report = 1
    /\ written = <<>>
    /\ inits = <<>>
    /\ returned = {}
    /\ flush_seen = {}

\* A variant of the mutex in which lock() never waits.
CanLock_always == TRUE

\* parking_lot Mutex::lock: returns once no other guard is alive.
CanLock == mutex = <<>>

\* A panic unwinds the stack of thread t: a FlushHandle living on it is
\* dropped, which runs FlushHandle::drop before the thread ends.
Unwind(t) ==
    IF handle.st = "held" /\ handle.owner = t
    THEN /\ handle' = [handle EXCEPT !.st = "dropped"]
         /\ tpc' = [tpc EXCEPT ![t].pc = "flush_lock", ![t].unwinding = TRUE]
    ELSE /\ handle' = handle
         /\ tpc' = [tpc EXCEPT ![t].pc = "panicked", ![t].unwinding = TRUE]

\* init_report_logger: REPORT_LOGGER.set(report_logger), and the expect on
\* its result; the FlushHandle is returned to the caller on success only.
InitReportLogger ==
    \E t \in Threads, l \in LoggerKinds :
      /\ tpc[t].pc = "idle"
      /\ Len(inits) < MaxInits
      /\ IF report_logger = <<>>
         THEN /\ report_logger' = <<l>>
              /\ handle' = [st |-> "held", owner |-> t]
              /\ inits' = Append(inits, [logger |-> l, ok |-> TRUE, thread |-> t])
              /\ tpc' = tpc
         ELSE /\ report_logger' = report_logger
              /\ inits' = Append(inits, [logger |-> l, ok |-> FALSE, thread |-> t])
              /\ Unwind(t)
      /\ UNCHANGED <<mutex, reports, next_report, written, returned, flush_seen>>
      /\ UNCHANGED cargo_vars

\* rudra_report: REPORT_LOGGER.get().unwrap(), then the logger's log.
RudraReport ==
    \E t \in Threads :
      /\ tpc[t].pc = "idle"
      /\ next_report <= MaxReports
      /\ IF report_logger = <<>>
         THEN /\ Unwind(t)
              /\ next_report' = next_report
         ELSE /\ tpc' = [tpc EXCEPT ![t].pc = "lock", ![t].r = next_report]
              /\ next_report' = next_report + 1
              /\ handle' = handle
      /\ UNCHANGED <<report_logger, mutex, reports, written, inits, returned,
                     flush_seen>>
      /\ UNCHANGED cargo_vars

\* log: self.reports.lock()
LogLock ==
    \E t \in Threads :
      /\ tpc[t].pc = "lock"
      /\ CanLock
      /\ mutex' = <<t>>
      /\ tpc' = [tpc EXCEPT ![t].pc = "push_read"]
      /\ UNCHANGED <<report_logger, handle, reports, next_report, written,
                     inits, returned, flush_seen>>
      /\ UNCHANGED cargo_vars

\* Vec::push, first half: read the length of the vector.
PushRead ==
    \E t \in Threads :
      /\ tpc[t].pc = "push_read"
      /\ tpc' = [tpc EXCEPT ![t].pc = "push_write", ![t].n = Len(reports)]
      /\ UNCHANGED <<report_logger, handle, mutex, reports, next_report,
                     written, inits, returned, flush_seen>>
      /\ UNCHANGED cargo_vars

\* Vec::push, second half: write the element at the length read and set the
\* length to one more.
PushWrite ==
    \E t \in Threads :
      /\ tpc[t].pc = "push_write"
      /\ reports' = Append(SubSeq(reports, 1, tpc[t].n), tpc[t].r)
      /\ tpc' = [tpc EXCEPT ![t].pc = "unlock"]
      /\ UNCHANGED <<report_logger, handle, mutex, next_report, written,
                     inits, returned, flush_seen>>
      /\ UNCHANGED cargo_vars

\* log: the guard is dropped at the end of the statement and log returns.
LogUnlock ==
    \E t \in Threads :
      /\ tpc[t].pc = "unlock"
      /\ mutex' = <<>>
      /\ returned' = returned \cup {tpc[t].r}
      /\ tpc' = [tpc EXCEPT ![t].pc = "idle"]
      /\ UNCHANGED <<report_logger, handle, reports, next_report, written,
                     inits, flush_seen>>
      /\ UNCHANGED cargo_vars

\* The thread holding the FlushHandle lets it go out of scope.
DropHandle ==
    \E t \in Threads :
      /\ tpc[t].pc = "idle"
      /\ handle.st = "held" /\ handle.owner = t
      /\ handle' = [handle EXCEPT !.st = "dropped"]
      /\ tpc' = [tpc EXCEPT ![t].pc = "flush_lock"]
      /\ UNCHANGED <<report_logger, mutex, reports, next_report, written,
                     inits, returned, flush_seen>>
      /\ UNCHANGED cargo_vars

\* FlushHandle::drop calls flush of the logger in REPORT_LOGGER;
\* flush: let reports = self.reports.lock()
FlushLock ==
    \E t \in Threads :
      /\ tpc[t].pc = "flush_lock"
      /\ CanLock
      /\ mutex' = <<t>>
      /\ flush_seen' = returned
      /\ tpc' = [tpc EXCEPT ![t].pc = "flush_write"]
      /\ UNCHANGED <<report_logger, handle, reports, next_report, written,
                     inits, returned>>
      /\ UNCHANGED cargo_vars

\* What flush writes: StderrLogger writes every report of the vector,
\* FileLogger writes the file only if the vector is not empty.
FlushOutput(l, buf, old) ==
    IF l = "file" /\ buf = <<>> THEN old ELSE <<buf>>

FlushWrite ==
    \E t \in Threads :
      /\ tpc[t].pc = "flush_write"
      /\ written' = FlushOutput(report_logger[1], reports, written)
      /\ tpc' = [tpc EXCEPT ![t].pc = "flush_unlock"]
      /\ UNCHANGED <<report_logger, handle, mutex, reports, next_report,
                     inits, returned, flush_seen>>
      /\ UNCHANGED cargo_vars

\* flush returns: its guard is dropped; the vector is left as it was.
FlushUnlock ==
    \E t \in Threads :
      /\ tpc[t].pc = "flush_unlock"
      /\ mutex' = <<>>
      /\ handle' = [handle EXCEPT !.st = "flushed"]
      /\ tpc' = [tpc EXCEPT ![t].pc =
                   IF tpc[t].unwinding THEN "panicked" ELSE "idle"]
      /\ UNCHANGED <<report_logger, reports, next_report, written, inits,
                     returned, flush_seen>>
      /\ UNCHANGED cargo_vars

ReportNext ==
    \/ InitReportLogger
    \/ RudraReport
    \/ LogLock
    \/ PushRead
    \/ PushWrite
    \/ LogUnlock
    \/ DropHandle
    \/ FlushLock
    \/ FlushWrite
    \/ FlushUnlock

\* ------------------------------------------------------------------------
\* Specifications
\* ------------------------------------------------------------------------

OrchIdle ==
    /\ pc = "main"
    /\ exit_code = <<>>
    /\ dependencies = <<>>
    /\ res = <<>>
    /\ step = 0
    /\ panic_report = <<>>
    /\ packages = <<>>
    /\ pkg_i = 0
    /\ targets = <<>>
    /\ tgt_i = 1
    /\ procs = <<>>

GateIdle ==
    /\ rudra_args = <<>>
    /\ is_direct_target = FALSE
    /\ is_additional_target = FALSE
    /\ gate_runs = <<>>

\* The environment of a process that cargo did not start as a compiler.
NoPackageEnv ==
    /\ cargo_pkg_name = <<>>
    /\ rudra_also_analyze = <<>>

\* A debug build started with neither RUDRA_REPORT_PATH nor the xargo
\* override set, and not by cargo under another `cargo rudra`.
PlainEnv ==
    /\ rudra_report_path = <<>>
    /\ use_xargo = FALSE
    /\ debug_assertions = TRUE
    /\ orch_argv = <<>>

\* `cargo rudra` on a workspace of two packages with any target lists.
Init ==
    /\ argv = <<ExePath, <<"rudra">>>>
    /\ nodes = {"A", "B"}
    /\ \E E \in SUBSET {<<"A", "B", "normal">>, <<"B", "A", "normal">>} :
         node_deps = DepsOf(E, nodes)
    /\ workspace_members \in SUBSET nodes
    /\ pkg_targets \in [nodes -> TargetLists]
    /\ OrchIdle
    /\ ReportIdle
    /\ GateIdle
    /\ NoPackageEnv
    /\ PlainEnv

\* `cargo rudra` on any resolved graph of the three packages.
InitSched ==
    /\ argv = <<ExePath, <<"rudra">>>>
    /\ nodes = PkgIds
    /\ \E E \in EdgeSets(nodes, MaxEdges) : node_deps = DepsOf(E, nodes)
    /\ workspace_members \in SUBSET nodes
    /\ pkg_targets = [p \in nodes |-> FixedTargets]
    /\ OrchIdle
    /\ ReportIdle
    /\ GateIdle
    /\ NoPackageEnv
    /\ PlainEnv

\* The arguments cargo may pass after `cargo-rudra rustc`.
ArgPool ==
    { <<"--target">>,
      <<"--target", "=", "x86_64">>,
      <<"--target", "-dir">>,
      <<"src", "/", "lib", ".rs">>,
      <<"/", "registry", "/", "build", ".rs">>,
      DashDash,
      <<"--crate-type">>,
      <<"lib">>,
      <<"--crate-type", "=", "rlib">>,
      <<"--crate-type", "=", "bin">>,
      <<"--crate-type", "s">> }

RECURSIVE ArgLists(_)
ArgLists(n) ==
    IF n = 0 THEN {<<>>}
    ELSE LET shorter == ArgLists(n - 1)
         IN shorter \cup
            { Append(l, a) : l \in {x \in shorter : Len(x) = n - 1}, a \in ArgPool }

\* CARGO_PKG_NAME and RUDRA_ALSO_ANALYZE of a compiler invocation.
PackageEnvs ==
    { <<<<>>, <<>>>>,
      <<<< <<"baz">> >>, <<>>>>,
      <<<< <<"baz">> >>, << <<"Foo", ",", "BAZ">> >>>>,
      <<<< <<"Foo">> >>, << <<"baz", ",", "">> >>>>,
      <<<<>>, << <<"baz">> >>>> }

\* `cargo-rudra rustc <args>`, as cargo runs the wrapper for one unit.
InitGate ==
    /\ \E rest \in ArgLists(MaxArgs) : argv = <<ExePath, <<"rustc">>>> \o rest
    /\ \E e \in PackageEnvs : cargo_pkg_name = e[1] /\ rudra_also_analyze = e[2]
    /\ nodes = {}
    /\ node_deps = <<>>
    /\ workspace_members = {}
    /\ pkg_targets = <<>>
    /\ OrchIdle
    /\ ReportIdle
    /\ GateIdle
    /\ PlainEnv

\* Every list of at most n arguments from a pool.
RECURSIVE ListsOver(_, _)
ListsOver(pool, n) ==
    IF n = 0 THEN {<<>>}
    ELSE LET shorter == ListsOver(pool, n - 1)
         IN shorter \cup
            { Append(l, a) : l \in {x \in shorter : Len(x) = n - 1}, a \in pool }

\* The arguments a caller may give after `cargo rudra`.
CallerArgPool ==
    { <<"--target">>,
      <<"--target", "=", "x86_64">>,
      <<"-v">>,
      DashDash,
      <<"-Z", Backslash, Quote, "LF">> }

\* The targets of a package with two binaries, one named as FixedTargets' is.
BinTargets ==
    << Target(<<"helper">>, << <<"bin">> >>),
       Target(<<"tool">>, << <<"bin">> >>) >>

\* `cargo rudra <args>` on a workspace of two packages, independent or
\* depending on each other, in any environment.
InitCmd ==
    /\ \E rest \in ListsOver(CallerArgPool, MaxArgs) :
         argv = <<ExePath, <<"rudra">>>> \o rest
    /\ nodes = {"A", "B"}
    /\ \E E \in {{}, {<<"A", "B", "normal">>, <<"B", "A", "normal">>}} :
         node_deps = DepsOf(E, nodes)
    /\ workspace_members = nodes
    /\ pkg_targets = [p \in nodes |-> IF p = "A" THEN FixedTargets ELSE BinTargets]
    /\ rudra_report_path \in {<<>>, << <<"/", "tmp", "/", "r">> >>}
    /\ use_xargo \in BOOLEAN
    /\ debug_assertions \in BOOLEAN
    /\ orch_argv = <<>>
    /\ OrchIdle
    /\ ReportIdle
    /\ GateIdle
    /\ NoPackageEnv

Spec == Init /\ [][OrchNext]_vars

SpecCmd == InitCmd /\ [][OrchNext]_vars

\* Spec with the orchestrator running: main and in_cargo_rudra are sequential
\* code, and wait_timeout returns within the hour, so a step that can be taken
\* is taken in the end.
SpecLive == Init /\ [][OrchNext]_vars /\ WF_vars(OrchNext)

\* The arguments a caller may give `cargo rudra` for the analyzer: the empty
\* string, and strings with the characters JSON escapes or uses itself.
PayloadArgPool ==
    { <<"-v">>,
      DashDash,
      <<>>,
      <<"-Z", Quote>>,
      <<Backslash, "n">>,
      <<"LF", "SOH">>,
      <<",", "[", "]">> }

\* The command lines cargo gives the wrapper for a library, for a binary and
\* for a build script, after `cargo-rudra rustc`.
UnitArgLists ==
    { << <<"--crate-type">>, <<"lib">>, <<"src", "/", "lib", ".rs">>,
         <<"--target">>, <<"x86_64">> >>,
      << <<"src", "/", "main", ".rs">>, <<"--crate-type", "=", "bin">>,
         <<"--target", "=", "x86_64">> >>,
      << <<"/", "registry", "/", "build", ".rs">> >> }

\* `cargo-rudra rustc <args>` started by cargo under a `cargo rudra <args>`:
\* RUDRA_REPORT_PATH is unset or as that process derived it for a target.
InitChannel ==
    /\ \E rest \in ListsOver(PayloadArgPool, MaxArgs) :
         orch_argv = << <<ExePath, <<"rudra">>>> \o rest >>
    /\ \E unit \in UnitArgLists : argv = <<ExePath, <<"rustc">>>> \o unit
    /\ \E e \in {<<<<>>, <<>>>>, <<<< <<"baz">> >>, << <<"Foo", ",", "BAZ">> >>>>} :
         cargo_pkg_name = e[1] /\ rudra_also_analyze = e[2]
    /\ rudra_report_path \in {<<>>, << <<"/", "tmp", "/", "r", "-", "lib", "-", "core">> >>}
    /\ use_xargo = FALSE
    /\ debug_assertions = TRUE
    /\ nodes = {}
    /\ node_deps = <<>>
    /\ workspace_members = {}
    /\ pkg_targets = <<>>
    /\ OrchIdle
    /\ ReportIdle
    /\ GateIdle

SpecChannel == InitChannel /\ [][GateNext]_vars

\* The arguments the program may be started with, the first one included.
EntryArgPool ==
    { <<"rudra">>,
      <<"rustc">>,
      <<"cargo-", "rudra">>,
      <<"rustc", ".exe">>,
      <<"--help">>,
      <<"-h">>,
      DashDash }

\* The program started with any arguments, on a workspace of two packages,
\* independent or depending on each other.
InitEntry ==
    /\ \E rest \in ListsOver(EntryArgPool, MaxArgs) : argv = <<ExePath>> \o rest
    /\ nodes = {"A", "B"}
    /\ \E E \in {{}, {<<"A", "B", "normal">>, <<"B", "A", "normal">>}} :
         node_deps = DepsOf(E, nodes)
    /\ workspace_members = nodes
    /\ pkg_targets = [p \in nodes |-> FixedTargets]
    /\ OrchIdle
    /\ ReportIdle
    /\ GateIdle
    /\ NoPackageEnv
    /\ PlainEnv

EntryNext ==
    \/ OrchNext
    \/ Classify
    \/ Analyze
    \/ Compile

SpecEntry == InitEntry /\ [][EntryNext]_vars

\* The analyzer process: the driver is not running, the sink is unset.
InitReport ==
    /\ argv = << <<"rudra">> >>
    /\ pc = "analyzer"
    /\ exit_code = <<>>
    /\ nodes = {} /\ node_deps = <<>> /\ workspace_members = {}
    /\ pkg_targets = <<>>
    /\ dependencies = <<>> /\ res = <<>> /\ step = 0
    /\ panic_report = <<>> /\ packages = <<>> /\ pkg_i = 0
    /\ targets = <<>> /\ tgt_i = 0 /\ procs = <<>>
    /\ GateIdle
    /\ NoPackageEnv
    /\ PlainEnv
    /\ ReportIdle

SpecReport == InitReport /\ [][ReportNext]_vars

SpecSched == InitSched /\ [][OrchNext]_vars

SpecGate == InitGate /\ [][GateNext]_vars

\* ------------------------------------------------------------------------
\* The dependency graph as the properties speak of it
\* ------------------------------------------------------------------------

\* p depends on d by a normal-kind dependency.
NormalEdge(p, d) ==
    \E x \in node_deps[p] : x.pkg = d /\ "normal" \in x.dep_kinds

RECURSIVE ReachableFrom(_)
ReachableFrom(S) ==
    LET more == S \cup {d \in nodes : \E p \in S : NormalEdge(p, d)}
    IN IF more = S THEN S ELSE ReachableFrom(more)

\* The packages p depends on, directly or transitively.
TransDeps(p) == ReachableFrom({d \in nodes : NormalEdge(p, d)})

Acyclic == \A p \in nodes : p \notin TransDeps(p)

\* cargo_workspace has returned to in_cargo_rudra.
Returned ==
    \/ pc \in {"loop", "wait", "kill", "reap", "Done", "TimedOut"}
    \/ pc = "Failed" /\ Len(procs) > 0

Dispatchable(t) == KindOf(t) \in {Library, Bin}

\* ------------------------------------------------------------------------
\* Properties
\* ------------------------------------------------------------------------

\* C1: for an acyclic graph of normal dependencies, cargo_workspace does not
\* panic and returns a sequence that holds every workspace member exactly
\* once, holds no other package, and puts every package after all the
\* packages it depends on, directly or through other packages (members or not).
C1_ScheduleIsTopological ==
    Acyclic =>
      /\ pc # "Panicked"
      /\ Returned =>
           /\ \A m \in workspace_members :
                Cardinality({k \in 1..Len(packages) : packages[k] = m}) = 1
           /\ \A k \in 1..Len(packages) : packages[k] \in workspace_members
           /\ \A k, j \in 1..Len(packages) :
                packages[j] \in TransDeps(packages[k]) => j < k

\* C1's case: two members ordered only through a package outside the workspace.
C1_Witness ==
    /\ Acyclic
    /\ Returned
    /\ \E p, q \in workspace_members : \E b \in nodes \ workspace_members :
         /\ NormalEdge(p, b) /\ NormalEdge(b, q) /\ ~NormalEdge(p, q)
         /\ \E k, j \in 1..Len(packages) : packages[k] = p /\ packages[j] = q /\ j < k

\* C2: with a cycle in the graph, the scheduler never completes its loop and
\* never returns: no package list, no child; it takes fewer selection steps
\* than there are packages, is never stuck in the loop, and its panic reports
\* exactly the packages not yet selected, each with its unresolved dependencies.
C2_CycleIsFatal ==
    ~Acyclic =>
      /\ pc \in {"main", "sysroot", "meta", "sched", "Panicked", "Failed"}
      /\ procs = <<>>
      /\ packages = <<>>
      /\ step < Cardinality(nodes)
      /\ Len(res) = step
      /\ pc = "sched" => ENABLED (SelectPackage \/ CyclePanic)
      /\ pc = "Panicked" =>
           /\ exit_code # <<>> /\ exit_code # <<0>>
           /\ DOMAIN panic_report = nodes \ Range(res)
           /\ DOMAIN panic_report # {}
           /\ \A p \in DOMAIN panic_report :
                /\ panic_report[p] = {d \in nodes : NormalEdge(p, d)} \ Range(res)
                /\ panic_report[p] # {}

\* C2's case: the panic after some packages outside the cycle were selected.
C2_Witness ==
    /\ ~Acyclic
    /\ pc = "Panicked"
    /\ step >= 1
    /\ Cardinality(DOMAIN panic_report) >= 2

\* C3: a Bin target's child is spawned only when every Library target of its
\* package has a child spawned before it that has exited and been waited for.
C3_LibraryBeforeBinaries ==
    \A k \in 1..Len(procs) :
      procs[k].kind = Bin =>
        \A t \in Range(pkg_targets[procs[k].pkg]) :
          KindOf(t) = Library =>
            \E j \in 1..(k - 1) :
              /\ procs[j].pkg = procs[k].pkg
              /\ procs[j].name = t.name
              /\ procs[j].kind = Library
              /\ procs[j].st = "reaped"

\* C3's case: the metadata lists a binary before the library, and the binary's
\* child has been spawned.
C3_Witness ==
    \E k \in 1..Len(procs) :
      /\ procs[k].kind = Bin
      /\ LET ts == pkg_targets[procs[k].pkg]
         IN \E a, b \in 1..Len(ts) :
              a < b /\ KindOf(ts[a]) = Bin /\ KindOf(ts[b]) = Library

\* C4: when a child of package p is spawned, every Library and Bin target of
\* every workspace member p depends on (directly or transitively) has had its
\* child spawned, waited for, and exited with status 0.
C4_DependenciesCompletedFirst ==
    \A k \in 1..Len(procs) :
      \A d \in TransDeps(procs[k].pkg) \cap workspace_members :
        \A t \in Range(pkg_targets[d]) :
          Dispatchable(t) =>
            \E j \in 1..(k - 1) :
              /\ procs[j].pkg = d
              /\ procs[j].name = t.name
              /\ procs[j].st = "reaped"
              /\ procs[j].status = <<0>>

\* C4's case: a child of a package that depends on a member only through
\* another package.
C4_Witness ==
    \E k \in 1..Len(procs) :
      \E d \in TransDeps(procs[k].pkg) \cap workspace_members :
        /\ ~NormalEdge(procs[k].pkg, d)
        /\ procs[k].st = "running"

\* C5: at most one child is running or a zombie, and it is the last one
\* spawned: every earlier child has exited and been waited for.
C5_OneChildAtATime ==
    /\ Cardinality({k \in 1..Len(procs) : procs[k].st # "reaped"}) <= 1
    /\ \A k \in 1..(Len(procs) - 1) : procs[k].st = "reaped"

\* C5's case: a third child runs after two others.
C5_Witness ==
    /\ Len(procs) >= 3
    /\ Child.st = "running"

\* C6: a child that wait_timeout found exited with a failure status is the
\* last child ever spawned, and the run is in Failed with exit status 1.
C6_FailureAborts ==
    \A k \in 1..Len(procs) :
      (procs[k].st = "reaped" /\ ~Success(procs[k].status) /\ ~procs[k].killed) =>
        /\ k = Len(procs)
        /\ pc = "Failed"
        /\ exit_code = <<1>>

\* C6's case: a child failed while targets or packages were still to be visited.
C6_Witness ==
    /\ pc = "Failed"
    /\ Len(procs) >= 1
    /\ Child.status = <<1>>
    /\ tgt_i < Len(targets)
    /\ pkg_i < Len(packages)

\* C7: once the hour has passed with the child not waited for, the child is
\* killed, then reaped, then the process exits with status 1: a killed child
\* is the last child ever spawned, child.wait() finds it dead, and in TimedOut
\* every child spawned has been reaped.
C7_TimeoutKillsAndReaps ==
    /\ \A k \in 1..Len(procs) :
         procs[k].killed => (k = Len(procs) /\ pc \in {"reap", "TimedOut"})
    /\ pc = "reap" => (Child.killed /\ Child.st = "zombie")
    /\ pc = "TimedOut" =>
         /\ exit_code = <<1>>
         /\ Child.killed
         /\ \A k \in 1..Len(procs) : procs[k].st = "reaped"

\* C7's case: a child killed by the signal while targets and packages remain.
C7_Witness ==
    /\ pc = "TimedOut"
    /\ Child.status = <<>>
    /\ tgt_i < Len(targets)
    /\ pkg_i < Len(packages)

\* ------------------------------------------------------------------------
\* The compiler invocation as the properties speak of it
\* ------------------------------------------------------------------------

\* The arguments carry --target with a value: `--target <value>` or
\* `--target=<value>`.
HasTargetSelector ==
    \E j \in 1..Len(argv) :
      \/ argv[j] = <<"--target">> /\ j < Len(argv)
      \/ StartsWith(argv[j], <<"--target", "=">>)

\* Positions of the arguments ending in .rs, and of those before any `--`.
RsPositions == {j \in 1..Len(argv) : EndsWith(argv[j], RsSuffix)}

RsPositionsBeforeDashDash ==
    {j \in RsPositions : \A h \in 1..j : argv[h] # DashDash}

Least(S) == CHOOSE x \in S : \A y \in S : x <= y

\* The entry path, the first argument ending in .rs, is relative.
EntryPathIsRelative ==
    RsPositions # {} /\ IsRelativePath(argv[Least(RsPositions)])

EntryPathIsAbsolute ==
    RsPositions # {} /\ ~IsRelativePath(argv[Least(RsPositions)])

\* The same, for the first argument ending in .rs before any `--`.
EntryPathBeforeDashDashIsRelative ==
    /\ RsPositionsBeforeDashDash # {}
    /\ IsRelativePath(argv[Least(RsPositionsBeforeDashDash)])

Classified == pc \in {"classified", "analyzed", "Exited", "Panicked"}

GateEnded == pc \in {"Exited", "Panicked"}

AnalyzerRuns == {j \in 1..Len(gate_runs) : gate_runs[j].prog = "rudra"}

CompilerRuns == {j \in 1..Len(gate_runs) : gate_runs[j].prog \in {"rustc", "sccache"}}

\* The package name is on the allow-list, whatever the case of the letters.
AllowListed ==
    /\ cargo_pkg_name # <<>>
    /\ rudra_also_analyze # <<>>
    /\ \E x \in Range(split_comma(rudra_also_analyze[1])) :
         to_lowercase(x) = to_lowercase(cargo_pkg_name[1])

\* The arguments declare a library crate type: `--crate-type <t>` or
\* `--crate-type=<t>` with t one of lib, rlib, staticlib.
DeclaresLibCrateType ==
    \E j \in 1..Len(argv) :
      \/ argv[j] = <<"--crate-type">> /\ j < Len(argv) /\ argv[j + 1] \in LibStrs
      \/ \E t \in LibStrs : argv[j] = <<"--crate-type", "=">> \o t

\* The command line is one rustc accepts from cargo: no `--`, every argument
\* that begins with --crate-type is the flag with its value, and no flag's
\* value begins with --crate-type.
PlainCrateTypeFlags ==
    /\ \A j \in 1..Len(argv) : argv[j] # DashDash
    /\ \A j \in 1..Len(argv) :
         StartsWith(argv[j], <<"--crate-type">>) =>
           \/ argv[j] = <<"--crate-type">> /\ j < Len(argv)
                /\ ~StartsWith(argv[j + 1], <<"--crate-type">>)
           \/ Len(argv[j]) > 2 /\ argv[j][2] = "="

\* RUDRA_ARGS was read and held an array of strings.
PayloadDecoded == rudra_args # <<>> /\ from_str(rudra_args[1]).ok

\* C8 as stated: the unit is a direct target exactly when the arguments
\* carry --target with a value and the first argument ending in .rs is a
\* relative path.
C8_DirectTargetIff_AsStated ==
    Classified => (is_direct_target <=> (HasTargetSelector /\ EntryPathIsRelative))

\* C8, amended: the unit is a direct target exactly when the arguments carry
\* --target with a value and the first argument ending in .rs before any `--`
\* is a relative path; with no such argument it is not a direct target.
C8_DirectTargetIff ==
    Classified =>
      /\ is_direct_target <=> (HasTargetSelector /\ EntryPathBeforeDashDashIsRelative)
      /\ RsPositionsBeforeDashDash = {} => ~is_direct_target

\* C8's case: a unit with --target and a relative entry path, classified as
\* a direct target, and with an absolute path further on.
C8_Witness ==
    /\ Classified
    /\ is_direct_target
    /\ \E j \in RsPositions : ~IsRelativePath(argv[j])

\* C9 as stated: for a unit without --target, or with an absolute entry path,
\* the analyzer is never run.
C9_NonTargetOnlyCompiled_AsStated ==
    (~HasTargetSelector \/ EntryPathIsAbsolute) => AnalyzerRuns = {}

\* C9, amended: for a unit without --target, or with an absolute entry path,
\* whose package is not on the allow-list, the analyzer is never run, and
\* when the gate ends it has run exactly one program: sccache or rustc.
C9_NonTargetOnlyCompiled ==
    ((~HasTargetSelector \/ EntryPathIsAbsolute) /\ ~AllowListed) =>
      /\ AnalyzerRuns = {}
      /\ GateEnded => (Len(gate_runs) = 1 /\ CompilerRuns = {1})

\* C9's case: a unit with an absolute entry path and --target went to rustc only.
C9_Witness ==
    /\ GateEnded
    /\ HasTargetSelector
    /\ EntryPathIsAbsolute
    /\ ~AllowListed
    /\ Len(gate_runs) = 1
    /\ gate_runs[1].prog = "rustc"
    /\ gate_runs[1].status = <<0>>

C11_AllowListedAnalyzedAndCompiled_AsStated ==
    (GateEnded /\ AllowListed /\ ~EntryPathIsRelative) =>
      (AnalyzerRuns # {} /\ CompilerRuns # {})

\* C11, amended: when the gate ends on a unit of an allow-listed package
\* compiled without a relative entry path, then with a payload that decodes
\* the analyzer has been run once, first, and the compiler has been run (once,
\* after it) exactly when the analyzer exited with status 0; with no payload
\* or one that does not decode the gate panicked and ran no program.
C11_AllowListedAnalyzedAndCompiled ==
    (GateEnded /\ AllowListed /\ ~EntryPathIsRelative) =>
      IF PayloadDecoded
        THEN /\ AnalyzerRuns = {1}
             /\ CompilerRuns # {} <=>
                  (gate_runs[1].started /\ gate_runs[1].status = <<0>>)
             /\ CompilerRuns \subseteq {2}
        ELSE pc = "Panicked" /\ gate_runs = <<>>

\* C11's case: a package on the allow-list under another spelling, compiled
\* from an absolute entry path, went to the analyzer and then to the compiler.
C11_Witness ==
    /\ GateEnded
    /\ AllowListed
    /\ EntryPathIsAbsolute
    /\ \A x \in Range(split_comma(rudra_also_analyze[1])) : x # cargo_pkg_name[1]
    /\ ~is_direct_target
    /\ Len(gate_runs) = 2
    /\ gate_runs[1].prog = "rudra"
    /\ gate_runs[2].prog \in {"rustc", "sccache"}

\* The gate ran a program that could not be started.
SomeRunNotStarted == \E j \in 1..Len(gate_runs) : ~gate_runs[j].started

\* The exit status the statement gives the gate: 0 when every program it ran
\* exited 0, else the code of the program that failed, 42 when it has none.
DelegatedExitCode ==
    LET failed == {j \in 1..Len(gate_runs) : gate_runs[j].status # <<0>>}
    IN IF failed = {} THEN <<0>>
       ELSE IF gate_runs[Least(failed)].status = <<>> THEN <<42>>
       ELSE gate_runs[Least(failed)].status

\* C12 as stated: when the gate ends, its exit status is 0 when every
\* program it ran exited 0, the failing program's exit code when one exited
\* non-zero, and 42 when the failing program ended without an exit code.
C12_GateExitStatus_AsStated == GateEnded => exit_code = DelegatedExitCode

\* C12, amended: when the gate ends having started every program it ran, and
\* not by the panic on RUDRA_ARGS, its exit status is as stated and only the
\* last program it ran can have failed; when a program could not be started,
\* or RUDRA_ARGS was needed and did not decode, the gate panicked (status 101).
C12_GateExitStatus ==
    GateEnded =>
      IF pc = "Exited"
        THEN /\ ~SomeRunNotStarted
             /\ exit_code = DelegatedExitCode
             /\ \A j \in 1..(Len(gate_runs) - 1) : gate_runs[j].status = <<0>>
        ELSE /\ exit_code = <<PanicExitCode>>
             /\ \/ SomeRunNotStarted
                \/ /\ gate_runs = <<>>
                   /\ ShouldAnalyze(is_direct_target, is_additional_target)
                   /\ ~PayloadDecoded

\* C12's case: the analyzer exited 0 and the compiler after it was ended by a
\* signal, so the gate exits with the code 42.
C12_Witness ==
    /\ pc = "Exited"
    /\ Len(gate_runs) = 2
    /\ gate_runs[1].status = <<0>>
    /\ gate_runs[2].started
    /\ gate_runs[2].status = <<>>
    /\ exit_code = <<42>>

\* ------------------------------------------------------------------------
\* The delegated build command as the properties speak of it
\* ------------------------------------------------------------------------

\* The arguments the caller gave after `cargo rudra`, and the position of
\* the first `--` among them (one past the end when there is none).
CallerArgs == SubSeq(argv, 3, Len(argv))

FirstDashDash ==
    Least({j \in 1..Len(CallerArgs) : CallerArgs[j] = DashDash}
          \cup {Len(CallerArgs) + 1})

BeforeFirstDashDash == SubSeq(CallerArgs, 1, FirstDashDash - 1)

AfterFirstDashDash == SubSeq(CallerArgs, FirstDashDash + 1, Len(CallerArgs))

\* The values a list of build-system arguments gives --target:
\* `--target <value>` or `--target=<value>`.
TargetSelectors(a) ==
    {a[j + 1] : j \in {h \in 1..(Len(a) - 1) : a[h] = <<"--target">>}}
    \cup {SubSeq(a[j], 3, Len(a[j])) :
            j \in {h \in 1..Len(a) : StartsWith(a[h], <<"--target", "=">>)}}

\* C13 as stated: every command spawned carries a --target selector among
\* its arguments: the caller's own when the caller gave one among the
\* build-system arguments, otherwise the host platform.
C13_AlwaysTargetSelector ==
    \A j \in 1..Len(procs) :
      IF TargetSelectors(BeforeFirstDashDash) # {}
        THEN TargetSelectors(BeforeFirstDashDash)
               \subseteq TargetSelectors(procs[j].cmd.args)
        ELSE Host \in TargetSelectors(procs[j].cmd.args)

\* The arguments in_cargo_rudra itself puts before the caller's.
OwnLeadingArgs ==
    {<<"check">>, <<"-p">>, <<"--lib">>, <<"--bin">>, <<"-q">>}
    \cup {PackageName(p) \o <<"@">> \o PackageVersion(p) : p \in nodes}
    \cup {t.name : t \in UNION {Range(pkg_targets[p]) : p \in nodes}}

\* C14: in every command spawned, the arguments are the orchestrator's own
\* leading ones, then the caller's arguments before the first `--`, verbatim
\* and in order, then nothing or the host default `--target <host>`; so
\* neither the `--` nor an argument after it is passed as a build-system
\* argument; and RUDRA_ARGS decodes to exactly the caller's arguments after
\* the first `--`, the empty sequence when there is no `--`.
C14_ArgumentSplit ==
    LET before == BeforeFirstDashDash
        after == AfterFirstDashDash
        own == OwnLeadingArgs
        n == Len(before)
    IN \A j \in 1..Len(procs) :
         LET c == procs[j].cmd
         IN /\ \E k \in 0..(Len(c.args) - n) :
                 /\ SubSeq(c.args, k + 1, k + n) = before
                 /\ SubSeq(c.args, k + n + 1, Len(c.args))
                      \in {<<>>, << <<"--target">>, Host >>}
                 /\ \A h \in 1..k : c.args[h] \in own
            /\ from_str(c.RUDRA_ARGS) = [ok |-> TRUE, val |-> after]

\* C14's case: a command spawned for a caller who gave arguments on both
\* sides of a `--`, the ones after it with characters JSON escapes.
C14_Witness ==
    /\ Len(procs) > 0
    /\ BeforeFirstDashDash # <<>>
    /\ \E j \in 1..Len(AfterFirstDashDash) : Backslash \in Range(AfterFirstDashDash[j])

\* ------------------------------------------------------------------------
\* The entry point as the properties speak of it
\* ------------------------------------------------------------------------

HelpRequested == \E j \in DOMAIN argv : argv[j] \in {<<"--help">>, <<"-h">>}

\* The first argument ends in the word w; FALSE when there is none.
FirstArgEndsIn(w) ==
    /\ Len(argv) >= 2
    /\ Len(argv[2]) >= 1
    /\ argv[2][Len(argv[2])] = w

NoSubprocess == procs = <<>> /\ gate_runs = <<>>

CycleFound == panic_report # <<>>

\* The run failed before any target was visited: the sysroots differ, or the
\* metadata could not be read.
FailedBeforeScheduling == pc = "Failed" /\ dependencies = <<>> /\ procs = <<>>

\* A child was found exited with a failure status.
SomeChildFailed ==
    \E k \in 1..Len(procs) :
      procs[k].st = "reaped" /\ ~procs[k].killed /\ procs[k].status # <<0>>

\* A child was killed after the hour and reaped.
SomeChildTimedOut ==
    \E k \in 1..Len(procs) : procs[k].st = "reaped" /\ procs[k].killed

\* C16 as stated: each fatal condition (cyclic graph, toolchain mismatch,
\* timeout, failed child) ends the process with exit status 1.
C16_FatalExitStatus_AsStated ==
    (CycleFound \/ FailedBeforeScheduling \/ SomeChildFailed \/ SomeChildTimedOut)
      => exit_code = <<1>>

\* C16, amended: a toolchain mismatch, a timeout and a failed child end the
\* process with exit status 1; a cyclic graph ends it by a panic, with exit
\* status 101; and a process that ended in failure met one of the four.
C16_FatalExitStatus ==
    /\ (FailedBeforeScheduling \/ SomeChildFailed \/ SomeChildTimedOut)
         => (pc \in {"Failed", "TimedOut"} /\ exit_code = <<1>>)
    /\ CycleFound => (pc = "Panicked" /\ exit_code = <<101>>)
    /\ pc \in {"Failed", "TimedOut", "Panicked"}
         => (CycleFound \/ FailedBeforeScheduling \/ SomeChildFailed
             \/ SomeChildTimedOut)

\* C16's case: a cycle between two workspace members ended the process.
C16_Witness ==
    /\ CycleFound
    /\ pc = "Panicked"
    /\ exit_code = <<101>>
    /\ workspace_members = nodes

\* ------------------------------------------------------------------------
\* The report paths as the properties speak of them
\* ------------------------------------------------------------------------

\* Pairs of distinct invocations of the run.
InvocationPairs == {jk \in (1..Len(procs)) \X (1..Len(procs)) : jk[1] < jk[2]}

\* C17 as stated: with a base report path configured, no two distinct
\* invocations of the run are given the same RUDRA_REPORT_PATH.
C17_DistinctReportPaths_AsStated ==
    rudra_report_path # <<>> =>
      \A jk \in InvocationPairs :
        procs[jk[1]].cmd.RUDRA_REPORT_PATH # procs[jk[2]].cmd.RUDRA_REPORT_PATH

\* C17, amended: with a base report path configured, every invocation is
\* given a RUDRA_REPORT_PATH, and two distinct invocations are given the same
\* one exactly when their targets have the same kind and the same name, which
\* happens only for targets of different packages.
C17_DistinctReportPaths ==
    rudra_report_path # <<>> =>
      /\ \A j \in 1..Len(procs) : procs[j].cmd.RUDRA_REPORT_PATH # <<>>
      /\ \A jk \in InvocationPairs :
           LET a == procs[jk[1]]
               b == procs[jk[2]]
           IN /\ (a.cmd.RUDRA_REPORT_PATH = b.cmd.RUDRA_REPORT_PATH)
                   <=> (a.kind = b.kind /\ a.name = b.name)
              /\ a.pkg = b.pkg => a.cmd.RUDRA_REPORT_PATH # b.cmd.RUDRA_REPORT_PATH

\* C17's case: a finished run in which two packages' binaries of the same
\* name were given the same path, and two binaries of one package different ones.
C17_Witness ==
    /\ pc = "Done"
    /\ rudra_report_path # <<>>
    /\ \E jk \in InvocationPairs :
         /\ procs[jk[1]].pkg # procs[jk[2]].pkg
         /\ procs[jk[1]].cmd.RUDRA_REPORT_PATH = procs[jk[2]].cmd.RUDRA_REPORT_PATH
    /\ \E jk \in InvocationPairs :
         /\ procs[jk[1]].pkg = procs[jk[2]].pkg
         /\ procs[jk[1]].kind = procs[jk[2]].kind

\* ------------------------------------------------------------------------
\* The selection of package and target as the properties speak of it
\* ------------------------------------------------------------------------

\* The positions of a list of arguments that hold the flag f.
FlagPositions(a, f) == {h \in 1..Len(a) : a[h] = f}

\* The arguments select exactly the package p: one -p, followed by name@version.
SelectsPackage(a, p) ==
    /\ Cardinality(FlagPositions(a, <<"-p">>)) = 1
    /\ \A h \in FlagPositions(a, <<"-p">>) :
         h < Len(a) /\ a[h + 1] = <<p, "@", "0.1.0">>

\* The arguments select exactly the library target, or exactly the binary
\* target of the given name.
SelectsTarget(a, kind, name) ==
    IF kind = 0
      THEN /\ Cardinality(FlagPositions(a, <<"--lib">>)) = 1
           /\ FlagPositions(a, <<"--bin">>) = {}
      ELSE /\ Cardinality(FlagPositions(a, <<"--bin">>)) = 1
           /\ FlagPositions(a, <<"--lib">>) = {}
           /\ \A h \in FlagPositions(a, <<"--bin">>) : h < Len(a) /\ a[h + 1] = name

\* C18 as stated: every command spawned selects exactly the target it
\* was built for, within exactly the package of that target, in every
\* environment, that of the alternate build driver included.
C18_OneTargetOnePackage ==
    \A j \in 1..Len(procs) :
      /\ SelectsTarget(procs[j].cmd.args, procs[j].kind, procs[j].name)
      /\ SelectsPackage(procs[j].cmd.args, procs[j].pkg)

\* ------------------------------------------------------------------------
\* The argument channel as the properties speak of it
\* ------------------------------------------------------------------------

\* The unit's original compiler arguments: what follows `cargo-rudra rustc`.
UnitArgs == SubSeq(argv, 3, Len(argv))

\* What the caller gave `cargo rudra` after the first `--`.
CallerPayload ==
    LET a == SubSeq(orch_argv[1], 3, Len(orch_argv[1]))
        first == Least({j \in 1..Len(a) : a[j] = DashDash} \cup {Len(a) + 1})
    IN SubSeq(a, first + 1, Len(a))

\* C19: once the gate is past the analyzer step on a direct or additional
\* target, under a `cargo rudra`, it has invoked the analyzer, first, with
\* the unit's original compiler arguments followed by exactly the arguments
\* the caller gave after the first `--`, in the same order.
C19_PayloadRoundTrip ==
    (orch_argv # <<>> /\ pc \in {"analyzed", "Exited", "Panicked"}
       /\ (is_direct_target \/ is_additional_target)) =>
      /\ 1 \in AnalyzerRuns
      /\ AnalyzerRuns \subseteq {1}
      /\ gate_runs[1].args = UnitArgs \o CallerPayload

\* C19's case: the analyzer was started for a direct target with a payload
\* of an empty string and a string of control characters.
C19_Witness ==
    /\ orch_argv # <<>>
    /\ is_direct_target
    /\ Len(gate_runs) > 0
    /\ gate_runs[1].prog = "rudra"
    /\ gate_runs[1].started
    /\ CallerPayload = << <<>>, <<"LF", "SOH">> >>
    /\ gate_runs[1].RUDRA_REPORT_PATH # <<>>

\* ------------------------------------------------------------------------
\* Targets of unknown kind as the properties speak of them
\* ------------------------------------------------------------------------

\* The kind strings of a target make it a library or a binary.
IsLibraryOrBinary(t) ==
    \/ \E j \in 1..Len(t.kind) : t.kind[j] \in {<<"lib">>, <<"rlib">>, <<"staticlib">>}
    \/ Len(t.kind) > 0 /\ t.kind[1] = <<"bin">>

TargetsOf(p) == Range(pkg_targets[p])

\* The target of package p named n got an invocation.
Invoked(p, n) == \E j \in 1..Len(procs) : procs[j].pkg = p /\ procs[j].name = n

\* C20: no invocation is ever spawned for a target that is neither library
\* nor binary; a run that ended in failure met a cycle, a failure before
\* scheduling, a failed child or a timeout; and a run that ended in Done has
\* exit status 0 and has invoked every library and binary target of every
\* scheduled package, those after a target of unknown kind included.
C20_UnknownKindSkipped ==
    /\ \A j \in 1..Len(procs) :
         \E t \in TargetsOf(procs[j].pkg) :
           t.name = procs[j].name /\ IsLibraryOrBinary(t)
    /\ pc \in {"Failed", "TimedOut", "Panicked"} =>
         (CycleFound \/ FailedBeforeScheduling \/ SomeChildFailed \/ SomeChildTimedOut)
    /\ pc = "Done" =>
         /\ exit_code = <<0>>
         /\ \A j \in 1..Len(packages) : \A t \in TargetsOf(packages[j]) :
              IsLibraryOrBinary(t) <=> Invoked(packages[j], t.name)

\* C20's case: a run ended in Done after it met a target of unknown kind in
\* the first package and went on to invoke a target of the second.
C20_Witness ==
    /\ pc = "Done"
    /\ exit_code = <<0>>
    /\ Len(packages) = 2
    /\ \E t \in TargetsOf(packages[1]) : ~IsLibraryOrBinary(t)
    /\ \E t \in TargetsOf(packages[2]) : Invoked(packages[2], t.name)
    /\ \E t \in TargetsOf(packages[2]) : ~IsLibraryOrBinary(t)

\* ------------------------------------------------------------------------
\* The payload errors as the properties speak of them
\* ------------------------------------------------------------------------

\* A text that is no JSON array: it is empty, or does not begin with the
\* opening bracket, or does not end with the closing one.
NotBracketed(text) ==
    \/ text = <<>>
    \/ text[1] # "["
    \/ text[Len(text)] # "]"

\* The analyzer step read RUDRA_ARGS and found it unset or no array.
PayloadMissingOrMalformed ==
    /\ pc \in {"analyzed", "Exited", "Panicked"}
    /\ (is_direct_target \/ is_additional_target)
    /\ (rudra_args = <<>> \/ NotBracketed(rudra_args[1]))

\* C21: when a direct or additional target unit finds RUDRA_ARGS missing or
\* malformed, the gate has ended by a panic with a non-zero exit status and
\* has run no program: neither the analyzer nor the compiler.
C21_PayloadErrorIsFatal ==
    PayloadMissingOrMalformed =>
      /\ pc = "Panicked"
      /\ exit_code # <<>> /\ exit_code # <<0>>
      /\ gate_runs = <<>>

\* C21's case: a direct target of a library crate type, for which analyzer
\* and compiler were due, with RUDRA_ARGS set to a text that is cut short.
C21_Witness ==
    /\ pc = "Panicked"
    /\ is_direct_target
    /\ DeclaresLibCrateType
    /\ rudra_args # <<>>
    /\ rudra_args[1][1] = "["
    /\ NotBracketed(rudra_args[1])
    /\ gate_runs = <<>>

\* ------------------------------------------------------------------------
\* The order of the gate's programs as the properties speak of it
\* ------------------------------------------------------------------------

\* C22: in the gate each of analyzer and compiler is run at most once; when
\* both have been run the analyzer was first and had exited with status 0
\* before the compiler was started; and when the analyzer has exited with a
\* non-zero code the gate has exited with that code and no compiler was run.
C22_AnalyzerThenCompiler ==
    /\ Cardinality(AnalyzerRuns) <= 1
    /\ Cardinality(CompilerRuns) <= 1
    /\ (AnalyzerRuns # {} /\ CompilerRuns # {}) =>
         /\ AnalyzerRuns = {1}
         /\ CompilerRuns = {2}
         /\ gate_runs[1].started
         /\ gate_runs[1].status = <<0>>
    /\ \A j \in AnalyzerRuns :
         (gate_runs[j].started /\ gate_runs[j].status \notin {<<>>, <<0>>}) =>
           /\ pc = "Exited"
           /\ exit_code = gate_runs[j].status
           /\ CompilerRuns = {}

\* C22's case: a direct target of a library crate type, for which both
\* programs were due, whose analyzer exited with code 2.
C22_Witness ==
    /\ is_direct_target
    /\ DeclaresLibCrateType
    /\ PlainCrateTypeFlags
    /\ Len(gate_runs) = 1
    /\ gate_runs[1].prog = "rudra"
    /\ gate_runs[1].status = <<2>>
    /\ pc = "Exited"
    /\ exit_code = <<2>>

\* ------------------------------------------------------------------------
\* The successful run as the properties speak of it
\* ------------------------------------------------------------------------

\* The toolchain is consistent and the metadata was read.
NoFailureBeforeScheduling == ~FailedBeforeScheduling

\* Every child so far has exited with status 0 within the hour, or still runs.
EveryInvocationSucceeds ==
    /\ pc \notin {"kill", "reap", "TimedOut"}
    /\ \A k \in 1..Len(procs) :
         procs[k].st # "running" => (procs[k].status = <<0>> /\ ~procs[k].killed)

\* How many children were spawned for the target named n of package p.
InvocationsOf(p, n) ==
    Cardinality({j \in 1..Len(procs) : procs[j].pkg = p /\ procs[j].name = n})

\* One child for each library and binary target of each workspace member,
\* and no other child.
OneInvocationPerMemberTarget ==
    /\ \A p \in nodes : \A t \in TargetsOf(p) :
         InvocationsOf(p, t.name) =
           (IF p \in workspace_members /\ IsLibraryOrBinary(t) THEN 1 ELSE 0)
    /\ \A j \in 1..Len(procs) :
         \E t \in TargetsOf(procs[j].pkg) : t.name = procs[j].name

\* C23: on an acyclic graph, if the toolchain is consistent and every child
\* exits with status 0 within the hour, the run eventually reaches Done with
\* exit status 0, having spawned exactly one child for each library and
\* binary target of each workspace member and none for any other package.
C23_SuccessfulRunCompletes ==
    (Acyclic /\ [](NoFailureBeforeScheduling /\ EveryInvocationSucceeds))
      => <>(pc = "Done" /\ exit_code = <<0>> /\ OneInvocationPerMemberTarget)

\* C23's case: a run reached Done with a child for each target of the one
\* member, and none for the package outside the workspace that the member
\* depends on and that has targets of its own.
C23_Witness ==
    /\ pc = "Done"
    /\ exit_code = <<0>>
    /\ OneInvocationPerMemberTarget
    /\ Len(procs) = 2
    /\ \E p \in nodes \ workspace_members :
         /\ \E t \in TargetsOf(p) : IsLibraryOrBinary(t)
         /\ \E q \in workspace_members : NormalEdge(q, p)

\* The number of times report r occurs in seq.
Occurrences(seq, r) == Cardinality({j \in 1..Len(seq) : seq[j] = r})

\* What the flush wrote out, empty if it wrote nothing.
FlushedBuffer == IF written = <<>> THEN <<>> ELSE written[1]

\* Only the first call of init_report_logger succeeds; every later one
\* panics in its caller and REPORT_LOGGER keeps the first logger.
InitializedAtMostOnce ==
    \A j \in 1..Len(inits) :
      /\ inits[j].ok <=> j = 1
      /\ report_logger = <<inits[1].logger>>
      /\ ~inits[j].ok => tpc[inits[j].thread].unwinding

\* C24: the sink is initialized at most once, a second init_report_logger
\* panics and leaves the first logger in place; and under any interleaving
\* of rudra_report calls of several threads, every report whose call returned
\* before the flush of the dropped FlushHandle took the buffer occurs exactly
\* once in what that flush wrote.
C24_ReportsFlushedOnce ==
    /\ InitializedAtMostOnce
    /\ handle.st = "flushed" =>
          \A r \in flush_seen : Occurrences(FlushedBuffer, r) = 1

\* A second initialization failed, the handle was dropped after two reports
\* had been logged, and one more report was logged after the flush.
C24_Witness ==
    /\ handle.st = "flushed"
    /\ Cardinality(flush_seen) >= 2
    /\ \E j \in 1..Len(inits) : ~inits[j].ok
    /\ returned \ flush_seen # {}

====
